---- MODULE Spec2Model ----
(***************************************************************************)
(* plan_trajectory (src/apps/plan_trajectory/plan_trajectory.cu).          *)
(*                                                                         *)
(* Five state machines over one set of variables, one per part of main():  *)
(*   SpecGrid    grid_trajectory_indices, lines 40-61 (uint arithmetic)    *)
(*   SpecColumn  the per-column z scan of the waypoint extractor, 138-151  *)
(*   SpecSeed    the seed-path sampling loop, line 156 (float arithmetic)  *)
(*   SpecSelect  the host's raster scan of one histogram, lines 313-326    *)
(*   Spec        main() from line 178 on: the sphere mesh, the per-waypoint*)
(*               loop with its device batches, and save_trajectory         *)
(* A machine's variables are idle (held at their initial values) in the    *)
(* other machines.                                                         *)
(***************************************************************************)
EXTENDS Integers, Sequences, FiniteSets, TLC

VARIABLES
    pc,         \* position of the control flow in the machine being run
    \* grid_trajectory_indices
    width,      \* uint width   (a 32-bit word, see U32)
    height,     \* uint height
    gx,         \* uint gx, the inner loop counter
    gy,         \* uint gy, the outer loop counter
    ret,        \* std::vector<std::pair<uint, uint>> ret
    \* the z scan of one column
    depth,      \* volume->depth()
    column,     \* z -> volume->at(x, y, z): Null or the image's samples
    z,          \* uint z
    oz,         \* int oz
    max,        \* float max
    \* the seed-path sampling loop
    numViews,   \* args.num_views
    t,          \* float t (a binary32 value, see FAdd)
    poses,      \* trajectory.size()
    \* main() from line 178 on
    mesh,       \* the handle `mesh` declared at line 180
    candidates, \* what vertices / the nearest-neighbour index were built from
    trajLen,    \* trajectory.size() when the loop starts
    cnt,        \* int cnt: the index of the waypoint in progress
    cam,        \* the orientation written to trajectory[cnt]: <<theta, phi>>
    streams,    \* per created cudaStream_t, its launched, unfinished kernels
    dhist,      \* the device histogram dhist
    hist,       \* the host histogram hist
    ddir,       \* ddir_hist: per sample point, the entries of its ViewHistory
    done        \* per phase, the number of waypoints that completed it

gridVars == <<width, height, gx, gy, ret>>
columnVars == <<depth, column, z, oz, max>>
seedVars == <<numViews, t, poses>>
planVars == <<mesh, candidates, trajLen, cnt, cam, streams, dhist, hist, ddir, done>>
vars == <<pc, gridVars, columnVars, seedVars, planVars>>

(***************************************************************************)
(* Bounds of the model.                                                    *)
(***************************************************************************)
MaxWidth == 5     \* volume widths 0..MaxWidth
MaxHeight == 10   \* volume heights 0..MaxHeight
MaxRet == 16      \* ret is followed up to this many entries
MaxRows == 4      \* and the outer loop up to this many rows
MaxDepth == 2     \* volume depths 0..MaxDepth
MaxSample == 2    \* voxel samples -1..MaxSample
MaxViews == 12    \* view counts 2..MaxViews, and the program's own
HistWidth == 2    \* histogram columns (256 in the program, line 224)
HistHeight == 2   \* histogram rows (90 in the program, line 224)
MaxScore == 2     \* bin scores 0..MaxScore
MaxWaypoints == 3 \* trajectories of 0..MaxWaypoints cameras, and max_cameras+1
NumPoints == 1    \* sample points of the cloud

(***************************************************************************)
(* uint: a 32-bit unsigned word kept as <<high half, low half>>, each half *)
(* in 0..2^16-1, so that width - 2 and height - 1 wrap as they do in C++.  *)
(***************************************************************************)
Half == 2^16

U32(n) == <<n \div Half, n % Half>>

U32Val(a) == a[1] * Half + a[2]

U32Add(a, b) ==
    LET lo == a[2] + b[2]
        hi == a[1] + b[1] + (lo \div Half)
    IN  <<hi % Half, lo % Half>>

U32Sub(a, b) ==
    LET lo == a[2] + Half - b[2]
        borrow == IF lo < Half THEN 1 ELSE 0
        hi == a[1] + Half - b[1] - borrow
    IN  <<hi % Half, lo % Half>>

U32Lt(a, b) == a[1] < b[1] \/ (a[1] = b[1] /\ a[2] < b[2])

U32Div3(a) ==
    LET r == a[1] % 3
    IN  <<a[1] \div 3, (r * Half + a[2]) \div 3>>

U32Times3(a) == U32Add(a, U32Add(a, a))

U32Even(a) == a[2] % 2 = 0

(***************************************************************************)
(* grid_trajectory_indices(width, height), lines 40-61.                    *)
(***************************************************************************)
\* line 42: gy < (height - 1) / 3
RowBound(h) == U32Div3(U32Sub(h, U32(1)))

\* line 43: gx < width - 2
ColBound(w) == U32Sub(w, U32(2))

\* lines 45-49
GridX(w, cgx, cgy) ==
    IF U32Even(cgy) THEN U32Add(U32(1), cgx)
    ELSE U32Sub(U32Sub(w, U32(1)), cgx)

\* line 50
GridY(cgy) == U32Add(U32(1), U32Times3(cgy))

\* a plausible slip: the wrap to a new row emits the column itself, no bridge
GridEmittedNoBridge(w, cgx, cgy) == << <<GridX(w, cgx, cgy), GridY(cgy)>> >>

\* lines 52-57: the entries one iteration of the inner loop appends
GridEmitted(w, cgx, cgy) ==
    LET x == GridX(w, cgx, cgy)
        y == GridY(cgy)
    IN  IF cgx = U32(0) /\ cgy # U32(0)
        THEN << <<x, U32Sub(y, U32(2))>>, <<x, U32Sub(y, U32(1))>> >>
        ELSE << <<x, y>> >>

\* the other machines' variables, idle
GridIdle ==
    /\ width = U32(0) /\ height = U32(0)
    /\ gx = U32(0) /\ gy = U32(0) /\ ret = <<>>

ColumnIdle ==
    /\ depth = 0 /\ column = <<>> /\ z = 0 /\ oz = 0 /\ max = 0

SeedIdle ==
    /\ numViews = 0 /\ t = <<0, 0>> /\ poses = 0

\* the histogram's bins <<x, y>>, and a histogram: a score for every bin
Bins == (0..(HistWidth - 1)) \X (0..(HistHeight - 1))

ZeroHist == [b \in Bins |-> 0]

\* the pose a camera has before the loop reaches it (nadir, or as loaded)
SeedPose == <<>>

Points == 1..NumPoints

NoPhases == [launched |-> 0, sweep |-> 0, proj |-> 0, select |-> 0, commit |-> 0]

PlanIdle ==
    /\ mesh = "null" /\ candidates = "none" /\ trajLen = 0 /\ cnt = 0
    /\ cam = SeedPose /\ streams = <<>> /\ dhist = ZeroHist /\ hist = ZeroHist
    /\ ddir = [p \in Points |-> 0] /\ done = NoPhases

GridFrame == UNCHANGED <<columnVars, seedVars, planVars>>

ColumnFrame == UNCHANGED <<gridVars, seedVars, planVars>>

SeedFrame == UNCHANGED <<gridVars, columnVars, planVars>>

PlanFrame == UNCHANGED <<gridVars, columnVars, seedVars>>

InitGrid ==
    /\ pc = "outer"
    /\ ColumnIdle /\ SeedIdle /\ PlanIdle
    /\ width \in {U32(w) : w \in 0..MaxWidth}
    /\ height \in {U32(h) : h \in 0..MaxHeight}
    /\ gx = U32(0)
    /\ gy = U32(0)
    /\ ret = <<>>

\* line 42, condition true; line 43, gx = 0
GridEnterRow ==
    /\ pc = "outer"
    /\ U32Lt(gy, RowBound(height))
    /\ U32Lt(gy, U32(MaxRows))
    /\ gx' = U32(0)
    /\ pc' = "inner"
    /\ UNCHANGED <<width, height, gy, ret>>
    /\ GridFrame

\* line 43, condition true; lines 44-57; ++gx
GridEmit ==
    /\ pc = "inner"
    /\ U32Lt(gx, ColBound(width))
    /\ Len(ret) < MaxRet
    /\ ret' = ret \o GridEmitted(width, gx, gy)
    /\ gx' = U32Add(gx, U32(1))
    /\ UNCHANGED <<pc, width, height, gy>>
    /\ GridFrame

\* line 43, condition false; ++gy
GridEndRow ==
    /\ pc = "inner"
    /\ ~U32Lt(gx, ColBound(width))
    /\ gy' = U32Add(gy, U32(1))
    /\ pc' = "outer"
    /\ UNCHANGED <<width, height, gx, ret>>
    /\ GridFrame

\* line 42, condition false; line 60
GridReturn ==
    /\ pc = "outer"
    /\ ~U32Lt(gy, RowBound(height))
    /\ pc' = "returned"
    /\ UNCHANGED gridVars
    /\ GridFrame

NextGrid == GridEnterRow \/ GridEmit \/ GridEndRow \/ GridReturn

SpecGrid == InitGrid /\ [][NextGrid]_vars

(***************************************************************************)
(* The z scan of one (x, y) column, lines 138-152.  A voxel is Null (no    *)
(* image, written as the empty set) or the non-empty set of its image's    *)
(* samples; samples are small integers standing for floats, compared as    *)
(* the floats are.  An image without samples, whose max_element would be   *)
(* dereferenced at end(), is not among the voxels.                         *)
(***************************************************************************)
Null == {}

Samples == (0 - 1)..MaxSample

Voxels == {Null} \cup (SUBSET Samples \ {{}})

\* line 145: *std::max_element(values.begin(), values.end())
MaxElement(values) == CHOOSE m \in values : \A v \in values : v <= m

\* lines 142-146
SliceValue(image) == IF image = Null THEN 0 ELSE MaxElement(image)

\* a plausible slip: oz follows every positive slice, max is never raised
ScanUpdateNoMax(value, cmax, coz, cz) ==
    IF value > cmax THEN <<cmax, cz>> ELSE <<cmax, coz>>

\* lines 147-150: <<max, oz>> after the slice at cz
ScanUpdate(value, cmax, coz, cz) ==
    IF value > cmax THEN <<value, cz>> ELSE <<cmax, coz>>

\* lines 138-139, for every column the volume can hold
InitColumn ==
    /\ pc = "zloop"
    /\ depth \in 0..MaxDepth
    /\ column \in [0..(depth - 1) -> Voxels]
    /\ z = 0
    /\ oz = depth - 1
    /\ max = 0
    /\ GridIdle /\ SeedIdle /\ PlanIdle

\* line 140, condition true; lines 141-150; ++z
ZScan ==
    /\ pc = "zloop"
    /\ z < depth
    /\ LET upd == ScanUpdate(SliceValue(column[z]), max, oz, z)
       IN  max' = upd[1] /\ oz' = upd[2]
    /\ z' = z + 1
    /\ UNCHANGED <<pc, depth, column>>
    /\ ColumnFrame

\* line 140, condition false; line 152: spline.add_point(position(x, y, oz))
ZAddPoint ==
    /\ pc = "zloop"
    /\ z >= depth
    /\ pc' = "added"
    /\ UNCHANGED columnVars
    /\ ColumnFrame

NextColumn == ZScan \/ ZAddPoint

SpecColumn == InitColumn /\ [][NextColumn]_vars

HasData == \E zz \in DOMAIN column : column[zz] # Null

HasPositive == \E zz \in DOMAIN column : \E v \in column[zz] : v > 0

ColumnMax == MaxElement(UNION {column[zz] : zz \in DOMAIN column})

(* C5 as stated: whenever some slice of the column holds data, the chosen z
   is a slice that holds data and whose maximum sample is the largest sample
   of the column; otherwise the topmost slice depth-1 is chosen. *)
C5_MaxOfAnyData ==
    pc = "added" =>
        IF HasData
        THEN /\ oz \in DOMAIN column
             /\ column[oz] # Null
             /\ MaxElement(column[oz]) = ColumnMax
        ELSE oz = depth - 1

(* C5 amended: whenever some sample of the column is positive, the chosen z
   is the lowest slice that holds data and whose maximum sample is the
   largest sample of the column; when no sample is positive (no data, or
   only samples <= 0) the topmost slice depth-1 is chosen. *)
C5_MaxOfPositiveData ==
    pc = "added" =>
        IF HasPositive
        THEN /\ oz \in DOMAIN column
             /\ column[oz] # Null
             /\ MaxElement(column[oz]) = ColumnMax
             /\ \A zz \in 0..(oz - 1) : SliceValue(column[zz]) < ColumnMax
        ELSE oz = depth - 1

\* a scanned column whose best slice is not the topmost one, above it a
\* slice with smaller positive data
C5_Witness ==
    /\ pc = "added"
    /\ depth >= 2
    /\ oz < depth - 1
    /\ SliceValue(column[oz]) > SliceValue(column[depth - 1])
    /\ SliceValue(column[depth - 1]) > 0

(***************************************************************************)
(* float: a binary32 value m * 2^(-k), kept as <<m, k>> with the 24-bit    *)
(* significand 2^23 <= m < 2^24, or <<0, 0>> for 0.0f.  Sums and quotients *)
(* round to nearest, ties to even, as the hardware does.                   *)
(***************************************************************************)
FZero == <<0, 0>>

FOne == <<2^23, 23>>

\* the sum of a and b, neither zero, a's exponent the larger or equal
FAddOrdered(a, b) ==
    LET d == b[2] - a[2]
        q == b[1] \div 2^d
        r == b[1] % 2^d
        A == a[1] + q
    IN  IF d > 25 THEN a
        ELSE IF A < 2^24
        THEN LET up == 2 * r > 2^d \/ (2 * r = 2^d /\ A % 2 = 1)
                 m1 == IF up THEN A + 1 ELSE A
             IN  IF m1 = 2^24 THEN <<2^23, a[2] - 1>> ELSE <<m1, a[2]>>
        ELSE LET Q == A \div 2
                 rem == (A % 2) * 2^d + r
                 up == rem > 2^d \/ (rem = 2^d /\ Q % 2 = 1)
                 m1 == IF up THEN Q + 1 ELSE Q
             IN  IF m1 = 2^24 THEN <<2^23, a[2] - 2>> ELSE <<m1, a[2] - 1>>

\* a + b
FAdd(a, b) ==
    IF a = FZero THEN b
    ELSE IF b = FZero THEN a
    ELSE IF a[2] <= b[2] THEN FAddOrdered(a, b)
    ELSE FAddOrdered(b, a)

RECURSIVE Log2(_)
Log2(n) == IF n < 2 THEN 0 ELSE 1 + Log2(n \div 2)

\* 1.0f / n for an integer 1 <= n < 2^15 (n converts to float exactly)
FRecip(n) ==
    LET e == Log2(n)
        quot == (2^24 \div n) * 2^e + (((2^24 % n) * 2^e) \div n)
        rem == ((2^24 % n) * 2^e) % n
        up == 2 * rem > n \/ (2 * rem = n /\ quot % 2 = 1)
        m1 == IF up THEN quot + 1 ELSE quot
    IN  IF n = 2^e THEN <<2^23, 23 + e>>
        ELSE IF m1 = 2^24 THEN <<2^23, 23 + e>>
        ELSE <<m1, 24 + e>>

\* a < 1.0f, for a >= 0
FLtOne(a) == a = FZero \/ a[2] > FOne[2]

(***************************************************************************)
(* The seed-path sampling loop, lines 156-173.                             *)
(***************************************************************************)
\* line 84: conf.num_views = 400
num_views == 400

\* line 156: 1.0f / (args.num_views - 1)
SeedStep(n) == FRecip(n - 1)

\* line 156: t += 1.0f / (args.num_views - 1)
SeedAdvance(ct, n) == FAdd(ct, SeedStep(n))

InitSeed ==
    /\ pc = "sample"
    /\ numViews \in (2..MaxViews) \cup {num_views}
    /\ t = FZero
    /\ poses = 0
    /\ GridIdle /\ ColumnIdle /\ PlanIdle

\* line 156, condition true; lines 157-172: trajectory.push_back(cam)
SeedSample ==
    /\ pc = "sample"
    /\ FLtOne(t)
    /\ poses' = poses + 1
    /\ t' = SeedAdvance(t, numViews)
    /\ UNCHANGED <<pc, numViews>>
    /\ SeedFrame

\* line 156, condition false
SeedDone ==
    /\ pc = "sample"
    /\ ~FLtOne(t)
    /\ pc' = "sampled"
    /\ UNCHANGED seedVars
    /\ SeedFrame

NextSeed == SeedSample \/ SeedDone

SpecSeed == InitSeed /\ [][NextSeed]_vars

SeedDefaultCount ==
    (pc = "sampled" /\ numViews = num_views) => poses = num_views

\* the entries of ret as plain numbers (every half-word pair below 2^31)
Columns == [i \in 1..Len(ret) |-> <<U32Val(ret[i][1]), U32Val(ret[i][2])>>]

Abs(n) == IF n < 0 THEN 0 - n ELSE n

(* C4: for width >= 3 and height >= 4 every returned column lies inside the
   1-cell border: 1 <= x <= width-2 and 1 <= y <= height-2. *)
C4_InsideBorder ==
    (U32Val(width) >= 3 /\ U32Val(height) >= 4) =>
        \A i \in 1..Len(ret) :
            /\ 1 <= Columns[i][1] /\ Columns[i][1] <= U32Val(width) - 2
            /\ 1 <= Columns[i][2] /\ Columns[i][2] <= U32Val(height) - 2

(* C7: for an empty volume (width 0 or height 0) the returned sequence is
   empty: no entry is ever appended to ret. *)
C7_EmptyVolumeEmptySequence ==
    (width = U32(0) \/ height = U32(0)) => ret = <<>>

Adjacent(i) ==
    /\ Abs(Columns[i + 1][1] - Columns[i][1]) <= 1
    /\ Abs(Columns[i + 1][2] - Columns[i][2]) <= 1

(* C9 as stated: for width >= 3 and height >= 4 any two consecutive columns
   differ by at most 1 in x and at most 1 in y. *)
C9_AdjacentFromWidth3 ==
    (U32Val(width) >= 3 /\ U32Val(height) >= 4) =>
        \A i \in 1..(Len(ret) - 1) : Adjacent(i)

(* C9 amended: for width >= 4 and height >= 4 any two consecutive columns
   differ by at most 1 in x and at most 1 in y, across every wrap too. *)
C9_AdjacentFromWidth4 ==
    (U32Val(width) >= 4 /\ U32Val(height) >= 4) =>
        \A i \in 1..(Len(ret) - 1) : Adjacent(i)

\* a returned sequence of a width >= 4 volume that wrapped twice
C9_Witness ==
    /\ pc = "returned"
    /\ U32Val(width) >= 4
    /\ U32Val(gy) >= 3
    /\ \E i \in 1..(Len(ret) - 1) : Columns[i + 1][2] # Columns[i][2]

(***************************************************************************)
(* The host's choice of the viewing direction, lines 313-326.  Angles are  *)
(* kept exactly, in units of pi / (2 * width * height).                    *)
(***************************************************************************)
\* line 321: (x / (float) width) * 2.0f * pi
Theta(x) == x * 4 * HistHeight

\* line 323: (0.5f + (y / (float) height) / 2.0f) * pi
Phi(y) == HistWidth * HistHeight + y * HistWidth

\* a plausible slip: >= for >, the last of several equal maxima wins
BinUpdateLastWins(v, best, x, y) ==
    IF v >= best[1] THEN <<v, Theta(x), Phi(y)>> ELSE best

\* lines 318-324: <<max, theta, phi>> after the bin (x, y) with score v
BinUpdate(v, best, x, y) ==
    IF v > best[1] THEN <<v, Theta(x), Phi(y)>> ELSE best

\* lines 316-326: the scan from raster index i on, y outer and x inner
RECURSIVE BinScan(_, _, _)
BinScan(h, i, best) ==
    IF i >= HistWidth * HistHeight THEN best
    ELSE LET x == i % HistWidth
             y == i \div HistWidth
         IN  BinScan(h, i + 1, BinUpdate(h[<<x, y>>], best, x, y))

\* lines 313-326: <<theta, phi>> of the chosen direction
SelectBin(h) ==
    LET best == BinScan(h, 0, <<0, 0, 0>>)
    IN  <<best[2], best[3]>>

(***************************************************************************)
(* main() from line 178: the candidate directions, then the loop over the  *)
(* trajectory.  Kernels are launched into the stream the iteration created *)
(* and finish in the order of their stream; kernels of different streams   *)
(* are unordered.  What a kernel computes is outside this file: the        *)
(* projection leaves some histogram in dhist, the observation pass appends *)
(* one direction to the ViewHistory of every point it finds visible.       *)
(***************************************************************************)
\* line 214: uint max_cameras = 20
max_cameras == 20

\* the histograms the projection is followed with: no visible point, every
\* bin equal, one peak in the last bin
FlatHist == [b \in Bins |-> 1]

PeakHist == [b \in Bins |-> IF b = <<HistWidth - 1, HistHeight - 1>> THEN 1 ELSE 0]

PlanHistograms == {ZeroHist, FlatHist, PeakHist}

Kernel(name) == [name |-> name, wp |-> cnt]

\* a plausible slip: the synchronisation does not wait
DeviceIdleNoWait == TRUE

\* lines 298, 390: cudaDeviceSynchronize() returns
DeviceIdle == \A s \in DOMAIN streams : streams[s] = <<>>

Launch(name) ==
    streams' = [streams EXCEPT ![Len(streams)] = Append(@, Kernel(name))]

InitPlan ==
    /\ pc = "generate_sphere"
    /\ mesh = "null"
    /\ candidates = "none"
    /\ trajLen \in (0..MaxWaypoints) \cup {max_cameras + 1}
    /\ cnt = 0
    /\ cam = SeedPose
    /\ streams = <<>>
    /\ dhist = ZeroHist
    /\ hist = ZeroHist
    /\ ddir = [p \in Points |-> 0]
    /\ done = NoPhases
    /\ GridIdle /\ ColumnIdle /\ SeedIdle

\* lines 180-183: the sphere is assigned to the handle declared inside the
\* try block, which ends with the block; the outer handle is not assigned
GenerateSphere ==
    /\ pc = "generate_sphere"
    /\ pc' = "get_vertices"
    /\ UNCHANGED planVars
    /\ PlanFrame

\* lines 183-186: generate_sphere throws
GenerateSphereFails ==
    /\ pc = "generate_sphere"
    /\ pc' = "exit_failure"
    /\ UNCHANGED planVars
    /\ PlanFrame

\* lines 188-199: mesh->get_vertices(), mesh->get_vertex_values() and the
\* nearest-neighbour index; through a null handle the reads are undefined,
\* and this outcome runs on with whatever they returned
ReadCandidates ==
    /\ pc = "get_vertices"
    /\ candidates' = IF mesh = "null" THEN "garbage" ELSE "sphere"
    /\ pc' = "allocate"
    /\ UNCHANGED <<mesh, trajLen, cnt, cam, streams, dhist, hist, ddir, done>>
    /\ PlanFrame

\* lines 188-191 through a null handle, the other outcome: a fault
ReadCandidatesFaults ==
    /\ pc = "get_vertices"
    /\ mesh = "null"
    /\ pc' = "crashed"
    /\ UNCHANGED planVars
    /\ PlanFrame

\* lines 201-234: the trees, the cloud, ddir_hist with max_cameras rows per
\* point, the histograms; cnt = 0
Allocate ==
    /\ pc = "allocate"
    /\ ddir' = [p \in Points |-> 0]
    /\ cnt' = 0
    /\ pc' = "loop"
    /\ UNCHANGED <<mesh, candidates, trajLen, cam, streams, dhist, hist, done>>
    /\ PlanFrame

\* lines 235-240: the next camera; cudaStreamCreate
LoopEnter ==
    /\ pc = "loop"
    /\ cnt < trajLen
    /\ cam' = SeedPose
    /\ streams' = Append(streams, <<>>)
    /\ pc' = "launch_initialize"
    /\ UNCHANGED <<mesh, candidates, trajLen, cnt, dhist, hist, ddir, done>>
    /\ PlanFrame

\* line 244: initialize_histogram<<<...>>>
LaunchInitialize ==
    /\ pc = "launch_initialize"
    /\ Launch("initialize_histogram")
    /\ done' = [done EXCEPT !.launched = @ + 1]
    /\ pc' = "launch_populate"
    /\ UNCHANGED <<mesh, candidates, trajLen, cnt, cam, dhist, hist, ddir>>
    /\ PlanFrame

\* lines 245-248: populate_histogram<<<...>>>, the sweep
LaunchPopulate ==
    /\ pc = "launch_populate"
    /\ Launch("populate_histogram")
    /\ pc' = "launch_evaluate"
    /\ UNCHANGED <<mesh, candidates, trajLen, cnt, cam, dhist, hist, ddir, done>>
    /\ PlanFrame

\* lines 268-273: evaluate_histogram<<<...>>>, the projection
LaunchEvaluate ==
    /\ pc = "launch_evaluate"
    /\ Launch("evaluate_histogram")
    /\ pc' = "sync_projection"
    /\ UNCHANGED <<mesh, candidates, trajLen, cnt, cam, dhist, hist, ddir, done>>
    /\ PlanFrame

\* line 298: CHECK(cudaDeviceSynchronize())
SyncProjection ==
    /\ pc = "sync_projection"
    /\ DeviceIdle
    /\ pc' = "copy_hist"
    /\ UNCHANGED planVars
    /\ PlanFrame

\* line 299: *hist = *dhist
CopyHist ==
    /\ pc = "copy_hist"
    /\ hist' = dhist
    /\ pc' = "select"
    /\ UNCHANGED <<mesh, candidates, trajLen, cnt, cam, streams, dhist, ddir, done>>
    /\ PlanFrame

\* lines 301-353: the bin, the basis, cam.trans and cam.rot
SelectOrientation ==
    /\ pc = "select"
    /\ cam' = SelectBin(hist)
    /\ done' = [done EXCEPT !.select = @ + 1]
    /\ pc' = "launch_commit"
    /\ UNCHANGED <<mesh, candidates, trajLen, cnt, streams, dhist, hist, ddir>>
    /\ PlanFrame

\* lines 355-364: populate_histogram<<<...>>> with the chosen camera
LaunchCommit ==
    /\ pc = "launch_commit"
    /\ Launch("commit")
    /\ pc' = "sync_commit"
    /\ UNCHANGED <<mesh, candidates, trajLen, cnt, cam, dhist, hist, ddir, done>>
    /\ PlanFrame

\* lines 390-392: CHECK(cudaDeviceSynchronize()); cnt += 1
SyncCommit ==
    /\ pc = "sync_commit"
    /\ DeviceIdle
    /\ cnt' = cnt + 1
    /\ pc' = "loop"
    /\ UNCHANGED <<mesh, candidates, trajLen, cam, streams, dhist, hist, ddir, done>>
    /\ PlanFrame

\* line 235, the range exhausted; line 394: save_trajectory
SaveTrajectory ==
    /\ pc = "loop"
    /\ cnt >= trajLen
    /\ pc' = "saved"
    /\ UNCHANGED planVars
    /\ PlanFrame

\* the ViewHistory sizes after the observation pass found `visible` visible
CommitAppend(visible) ==
    [p \in Points |-> IF p \in visible THEN ddir[p] + 1 ELSE ddir[p]]

\* the kernel at the head of stream s finishes
KernelFinishes(s) ==
    /\ streams[s] # <<>>
    /\ streams' = [streams EXCEPT ![s] = Tail(@)]
    /\ LET k == Head(streams[s])
       IN  \/ /\ k.name = "initialize_histogram"
              /\ UNCHANGED <<dhist, ddir, done>>
           \/ /\ k.name = "populate_histogram"
              /\ done' = [done EXCEPT !.sweep = @ + 1]
              /\ UNCHANGED <<dhist, ddir>>
           \/ /\ k.name = "evaluate_histogram"
              /\ dhist' \in PlanHistograms
              /\ done' = [done EXCEPT !.proj = @ + 1]
              /\ UNCHANGED ddir
           \/ /\ k.name = "commit"
              /\ \E visible \in SUBSET Points : ddir' = CommitAppend(visible)
              /\ done' = [done EXCEPT !.commit = @ + 1]
              /\ UNCHANGED dhist
    /\ UNCHANGED <<pc, mesh, candidates, trajLen, cnt, cam, hist>>
    /\ PlanFrame

DeviceStep == \E s \in DOMAIN streams : KernelFinishes(s)

Next ==
    \/ GenerateSphere \/ GenerateSphereFails
    \/ ReadCandidates \/ ReadCandidatesFaults
    \/ Allocate
    \/ LoopEnter
    \/ LaunchInitialize \/ LaunchPopulate \/ LaunchEvaluate
    \/ SyncProjection \/ CopyHist \/ SelectOrientation
    \/ LaunchCommit \/ SyncCommit
    \/ SaveTrajectory
    \/ DeviceStep

Spec == InitPlan /\ [][Next]_vars

(***************************************************************************)
(* The scan alone, for every histogram the projection can leave.           *)
(***************************************************************************)
InitSelect ==
    /\ pc = "select"
    /\ mesh = "null"
    /\ candidates = "garbage"
    /\ trajLen = 1
    /\ cnt = 0
    /\ cam = SeedPose
    /\ streams = << <<>> >>
    /\ dhist \in [Bins -> 0..MaxScore]
    /\ hist = dhist
    /\ ddir = [p \in Points |-> 0]
    /\ done = [NoPhases EXCEPT !.launched = 1, !.sweep = 1, !.proj = 1]
    /\ GridIdle /\ ColumnIdle /\ SeedIdle

NextSelect == SelectOrientation

SpecSelect == InitSelect /\ [][NextSelect]_vars

InLoop ==
    pc \in {"loop", "launch_initialize", "launch_populate", "launch_evaluate",
            "sync_projection", "copy_hist", "select", "launch_commit",
            "sync_commit"}

\* no ViewHistory holds more entries than the rows allocated for it
HistoryWithinCapacity == \A p \in Points : ddir[p] <= max_cameras

(* C1: in every state of the planning loop the per-point capacity equals
   the number of waypoints of the trajectory, and no sample point's
   ViewHistory holds more entries than that capacity. *)
C1_CapacityIsTrajectoryLength ==
    InLoop => (max_cameras = trajLen /\ HistoryWithinCapacity)

AllZero(h) == \A b \in Bins : h[b] = 0

(* C2: when the histogram of a waypoint is all zero, orientation selection
   fails with DegenerateOrientation: the step taken from the selection is the
   abort, it writes no pose and launches no observation pass. *)
C2_DegenerateOrientationAborts ==
    [][(pc = "select" /\ AllZero(hist)) =>
          (pc' = "degenerate_orientation" /\ cam' = cam /\ streams' = streams)]_vars

Raster(b) == b[2] * HistWidth + b[1]

HistMax == CHOOSE m \in {hist[b] : b \in Bins} : \A b \in Bins : hist[b] <= m

(* C6: for a histogram with at least one positive score, the orientation
   written is that of the first bin in raster order (rows y outer, columns x
   inner) whose score equals the histogram's maximum: theta = 2*pi*x/width,
   phi = (0.5 + y/(2*height))*pi. *)
C6_FirstMaximumBin ==
    (pc = "launch_commit" /\ ~AllZero(hist)) =>
        \E b \in Bins :
            /\ hist[b] = HistMax
            /\ \A c \in Bins : Raster(c) < Raster(b) => hist[c] < HistMax
            /\ cam = <<Theta(b[1]), Phi(b[2])>>

\* an orientation chosen among two bins that tie at the maximum, after a
\* first bin of the scan with a smaller positive score
C6_Witness ==
    /\ pc = "launch_commit"
    /\ hist[<<0, 0>>] > 0
    /\ \E b, c \in Bins :
           /\ b # c /\ hist[b] = HistMax /\ hist[c] = HistMax
           /\ hist[<<0, 0>>] < HistMax

(* C8: the phases of every waypoint complete in the order sweep, projection,
   host bin selection, commit; the host selects only after the projection of
   the same waypoint has finished; the sweep of the next waypoint is not
   launched before the commit of this one has completed, so every unfinished
   batch belongs to the waypoint in progress. *)
C8_PhasesInOrder ==
    /\ \A s \in DOMAIN streams : \A i \in 1..Len(streams[s]) :
           streams[s][i].wp = cnt
    /\ done.commit <= done.select
    /\ done.select <= done.proj
    /\ done.proj <= done.sweep
    /\ done.sweep <= done.launched
    /\ done.launched <= done.commit + 1
    /\ pc \in {"copy_hist", "select"} => done.proj = cnt + 1

\* the sweep of the second waypoint is in flight, the commit of the first done
C8_Witness ==
    /\ cnt = 1
    /\ done.commit = 1
    /\ \E s \in DOMAIN streams : \E i \in 1..Len(streams[s]) :
           streams[s][i].name = "populate_histogram"

(* C10: where the candidate directions are read (lines 188-199) the mesh
   handle is non-null and refers to the sphere generated at startup, so the
   nearest-neighbour index is built from the sphere's vertices. *)
C10_MeshHandleIsSphere ==
    /\ pc = "get_vertices" => mesh = "sphere"
    /\ candidates \in {"none", "sphere"}
====
